---- MODULE Spec2Model ----
(***************************************************************************)
(* Model of ASMMonitor (auto-session-manager/scripts/monitor.py): the      *)
(* context sampler, the dedup gate and rollover orchestration, the         *)
(* gateway / dingtalk health branches with restart_gateway, and the        *)
(* MiniMax quota flag, driven by the run_daemon loop.                      *)
(*                                                                         *)
(* Conventions                                                             *)
(*  - Python None for an optional record is the empty sequence <<>>, a     *)
(*    present value v is <<v>>; None for a timestamp is the integer None.  *)
(*  - Timestamps are seconds on an integer clock `now`.                    *)
(*  - Token counts are in thousands of tokens (so that the products used   *)
(*    to compare usage ratios exactly stay inside TLC's integers).         *)
(*  - A session key is the sequence of its ':'-separated segments.         *)
(***************************************************************************)
EXTENDS Integers, Sequences, FiniteSets, TLC

(* ------------------------------------------------------------------ *)
(* Program constants (DEFAULT_CONFIG and literals of monitor.py)       *)
(* ------------------------------------------------------------------ *)
context_threshold == 80
restart_max_attempts == 3
restart_cooldown == 120
minimax_quota_threshold == 100
dingtalk_timeout == 120
exception_sleep == 10
default_context_tokens == 200
usage_per_active == 5
None == -1

valid_topics == {"464", "465", "1186", "1816"}

\* (gateway_timeout, monitor_interval): the values of DEFAULT_CONFIG, and a
\* configuration built by main() from --interval 100 --gateway-timeout 30
\* (an interval shorter than the restart cooldown).
Configs ==
    { [gateway_timeout |-> 120, monitor_interval |-> 180],
      [gateway_timeout |-> 30,  monitor_interval |-> 100] }

(* ------------------------------------------------------------------ *)
(* Bounds of the model                                                 *)
(* ------------------------------------------------------------------ *)
MaxCycles == 4
MaxSessions == 2

(* ------------------------------------------------------------------ *)
(* Session keys and the topic extraction of check_context_usage        *)
(* ------------------------------------------------------------------ *)
K_plain  == <<"agent", "main", "main">>
K_464    == <<"agent", "main", "tg", "topic", "464">>
K_1816   == <<"agent", "main", "tg", "topic", "1816">>
K_999    == <<"agent", "main", "tg", "topic", "999">>
K_abc    == <<"agent", "main", "tg", "topic", "abc">>
K_ext    == <<"agent", "main", "topic", "464", "x">>
K_topics == <<"agent", "main", "topics">>
K_sub    == <<"agent", "sub", "topic", "465">>

\* 'agent:main' in key
HasAgentMain(key) ==
    \E i \in 1..(Len(key) - 1) : key[i] = "agent" /\ key[i + 1] = "main"

\* 'topic' in key
HasTopicWord(key) == \E i \in 1..Len(key) : key[i] \in {"topic", "topics"}

\* 'topic:' in key : a segment "topic" that is followed by a ':'
TopicMarks(key) == { i \in 1..(Len(key) - 1) : key[i] = "topic" }

\* key.split('topic:')[-1] if 'topic:' in key else "" ; the result is the
\* sequence of segments after the last "topic:" (<<>> is the empty string).
extract_topic(key) ==
    IF HasTopicWord(key) /\ TopicMarks(key) # {}
    THEN LET m == CHOOSE i \in TopicMarks(key) : \A j \in TopicMarks(key) : j <= i
         IN  SubSeq(key, m + 1, Len(key))
    ELSE <<>>

\* truthiness of the extracted topic string
TopicTruthy(topic_id) == topic_id # <<>> /\ topic_id # <<"">>

\* faulty variant: any non-empty topic is accepted
validate_topic_any(topic_id) == TopicTruthy(topic_id)

\* _validate_topic: non-empty, all digits, and a member of the allow-list.
\* A remainder of several segments contains ':' and so is not all digits.
validate_topic(topic_id) ==
    /\ TopicTruthy(topic_id)
    /\ Len(topic_id) = 1
    /\ topic_id[1] \in valid_topics

(* ------------------------------------------------------------------ *)
(* check_context_usage                                                 *)
(* ------------------------------------------------------------------ *)
\* dict.get(field, default) on a session's data
Get(d, field, default) == IF field \in DOMAIN d THEN d[field] ELSE default

\* faulty variant: the guard is `context_limit != 0`
usage_of_nonzero(total_tokens, context_limit) ==
    IF context_limit # 0
    THEN [num |-> total_tokens * 100, den |-> context_limit]
    ELSE [num |-> 0, den |-> 1]

\* usage_percent as the exact fraction num/den (den > 0);
\* (total_tokens / context_limit * 100) if context_limit > 0 else 0
usage_of(total_tokens, context_limit) ==
    IF context_limit > 0
    THEN [num |-> total_tokens * 100, den |-> context_limit]
    ELSE [num |-> 0, den |-> 1]

UsageGT(a, b) == a.num * b.den > b.num * a.den
UsageGE(a, b) == a.num * b.den >= b.num * a.den
Percent(n) == [num |-> n, den |-> 1]

\* the entry appended to `results` for one accepted session
session_result(key, data) ==
    LET total_tokens  == Get(data, "totalTokens", 0)
        context_limit == Get(data, "contextTokens", default_context_tokens)
        usage         == usage_of(total_tokens, context_limit)
    IN  [ session_key   |-> key,
          session_id    |-> Get(data, "sessionId", key),
          total_tokens  |-> total_tokens,
          context_limit |-> context_limit,
          usage_percent |-> usage,
          topic_id      |-> extract_topic(key),
          needs_summary |-> UsageGE(usage, Percent(context_threshold)) ]

\* faulty variant: >= instead of >
highest_replaced_ge(usage, highest_usage) == UsageGE(usage, highest_usage)

\* the test `usage_percent > highest_usage` that replaces the running maximum
highest_replaced(usage, highest_usage) == UsageGT(usage, highest_usage)

\* whether the loop skips the entry (not an agent:main key, or a topic that
\* is present and not allow-listed)
session_skipped(key) ==
    \/ ~HasAgentMain(key)
    \/ (TopicTruthy(extract_topic(key)) /\ ~validate_topic(extract_topic(key)))

RECURSIVE scan_sessions(_, _, _)
\* the for-loop over sessions.items(), from entry i on, with the accumulator
\* acc = [results, highest_usage, highest_session]
scan_sessions(doc, i, acc) ==
    IF i > Len(doc) THEN acc
    ELSE LET key == doc[i].key
         IN  IF session_skipped(key)
             THEN scan_sessions(doc, i + 1, acc)
             ELSE LET r  == session_result(key, doc[i].data)
                      rs == Append(acc.results, r)
                  IN  IF highest_replaced(r.usage_percent, acc.highest_usage)
                      THEN scan_sessions(doc, i + 1,
                               [ results         |-> rs,
                                 highest_usage   |-> r.usage_percent,
                                 highest_session |-> <<r>> ])
                      ELSE scan_sessions(doc, i + 1,
                               [acc EXCEPT !.results = rs])

\* check_context_usage on the content of sessions.json: `store` is <<>> when
\* the file is missing or cannot be parsed (the function returns None), and
\* <<doc>> otherwise, doc being the entries in file order.
check_context_usage(store) ==
    IF store = <<>> THEN <<>>
    ELSE LET acc == scan_sessions(store[1], 1,
                        [ results         |-> <<>>,
                          highest_usage   |-> Percent(0),
                          highest_session |-> <<>> ])
         IN  << [ all_sessions  |-> acc.results,
                  highest       |-> acc.highest_session,
                  overall_usage |-> acc.highest_usage,
                  needs_summary |-> UsageGE(acc.highest_usage,
                                            Percent(context_threshold)) ] >>

(* ------------------------------------------------------------------ *)
(* Persisted state: _load_state / _save_state                          *)
(* ------------------------------------------------------------------ *)
Range(seq) == { seq[i] : i \in 1..Len(seq) }

\* The state document. Keys that the code reads with .get() and a default
\* (check_count, dingtalk_downtime_start) are carried with that default.
\* Two keys are written and never read by the monitor: last_summary_time,
\* of which the model keeps whether it is set (0) or not (None), and the
\* cc_over_threshold list, which is not carried (its _save_state is).
default_state ==
    [ last_context_check      |-> None,
      last_session_id         |-> None,
      gateway_downtime_start  |-> None,
      dingtalk_downtime_start |-> None,
      minimax_quota_low       |-> FALSE,
      failed_restarts         |-> 0,
      sessions_processed      |-> <<>>,
      check_count             |-> 0,
      last_summary_time       |-> None ]

\* the state file: status is "missing", "ok" or "corrupt"
no_file == [status |-> "missing", doc |-> default_state]

\* _load_state: the parsed document, or the defaults when the file is
\* missing or json.load raises
load_state(f) == IF f.status = "ok" THEN f.doc ELSE default_state

\* _save_state: the whole in-memory state replaces the file
save_state(st) == [status |-> "ok", doc |-> st]

(* ------------------------------------------------------------------ *)
(* Dedup gate of run_single_check                                      *)
(* ------------------------------------------------------------------ *)
\* faulty variant: the membership test is dropped
dedup_gate_always(st, key) ==
    [ skip  |-> FALSE,
      state |-> [st EXCEPT !.sessions_processed = Append(@, key)] ]

\* faulty variant: the key is not appended before the orchestration
dedup_gate_no_mark(st, key) ==
    [ skip  |-> key \in Range(st.sessions_processed),
      state |-> st ]

\* `st` is the freshly re-loaded state; the key is either found in
\* sessions_processed (skip) or appended to it.
dedup_gate(st, key) ==
    IF key \in Range(st.sessions_processed)
    THEN [skip |-> TRUE, state |-> st]
    ELSE [ skip  |-> FALSE,
           state |-> [st EXCEPT !.sessions_processed = Append(@, key)] ]

\* the _save_state() that follows the append
mark_persist(f, st) == save_state(st)

(* ------------------------------------------------------------------ *)
(* restart_gateway                                                     *)
(* ------------------------------------------------------------------ *)
\* outcomes of the try block: everything runs; pkill itself raises; pkill
\* runs and opening the log or Popen raises
RestartOutcomes == {"ok", "stop_failed", "start_failed"}

\* faulty variant: no cooldown
in_cooldown_never(lrt, t) == FALSE

\* the cooldown test: last_restart_time is set and less than
\* restart_cooldown seconds old
in_cooldown(lrt, t) == lrt # None /\ (t - lrt) < restart_cooldown

\* faulty variant: a successful restart does not stamp last_restart_time
restart_gateway_no_stamp(st, lrt, attempts, t, outcome) ==
    IF in_cooldown(lrt, t)
    THEN [ ret |-> FALSE, attempted |-> FALSE, stop |-> FALSE,
           start |-> FALSE, saved |-> FALSE,
           state |-> st, last_restart_time |-> lrt,
           restart_attempts |-> attempts ]
    ELSE IF outcome = "ok"
    THEN [ ret |-> TRUE, attempted |-> TRUE, stop |-> TRUE,
           start |-> TRUE, saved |-> TRUE,
           state |-> [st EXCEPT !.failed_restarts = 0],
           last_restart_time |-> lrt,
           restart_attempts |-> 0 ]
    ELSE [ ret |-> FALSE, attempted |-> TRUE,
           stop |-> (outcome = "start_failed"),
           start |-> FALSE, saved |-> FALSE,
           state |-> st, last_restart_time |-> lrt,
           restart_attempts |-> attempts + 1 ]

\* faulty variant: a call inside the cooldown is counted as a failure
restart_gateway_cooldown_counts(st, lrt, attempts, t, outcome) ==
    IF in_cooldown(lrt, t)
    THEN [ ret |-> FALSE, attempted |-> FALSE, stop |-> FALSE,
           start |-> FALSE, saved |-> FALSE,
           state |-> st, last_restart_time |-> lrt,
           restart_attempts |-> attempts + 1 ]
    ELSE IF outcome = "ok"
    THEN [ ret |-> TRUE, attempted |-> TRUE, stop |-> TRUE,
           start |-> TRUE, saved |-> TRUE,
           state |-> [st EXCEPT !.failed_restarts = 0],
           last_restart_time |-> t,
           restart_attempts |-> 0 ]
    ELSE [ ret |-> FALSE, attempted |-> TRUE,
           stop |-> (outcome = "start_failed"),
           start |-> FALSE, saved |-> FALSE,
           state |-> st, last_restart_time |-> lrt,
           restart_attempts |-> attempts + 1 ]

\* Result of one call at time t: the return value, whether the call got
\* past the cooldown test, whether the stop and the start command ran, the
\* new in-memory fields, and whether _save_state ran.
restart_gateway(st, lrt, attempts, t, outcome) ==
    IF in_cooldown(lrt, t)
    THEN [ ret |-> FALSE, attempted |-> FALSE, stop |-> FALSE,
           start |-> FALSE, saved |-> FALSE,
           state |-> st, last_restart_time |-> lrt,
           restart_attempts |-> attempts ]
    ELSE IF outcome = "ok"
    THEN [ ret |-> TRUE, attempted |-> TRUE, stop |-> TRUE,
           start |-> TRUE, saved |-> TRUE,
           state |-> [st EXCEPT !.failed_restarts = 0],
           last_restart_time |-> t,
           restart_attempts |-> 0 ]
    ELSE [ ret |-> FALSE, attempted |-> TRUE,
           stop |-> (outcome = "start_failed"),
           start |-> FALSE, saved |-> FALSE,
           state |-> st, last_restart_time |-> lrt,
           restart_attempts |-> attempts + 1 ]

(* ------------------------------------------------------------------ *)
(* Gateway and dingtalk branches of run_single_check                   *)
(* ------------------------------------------------------------------ *)
GwStatuses == {"healthy", "unreachable"}
DtStatuses == {"healthy", "not_configured", "warning"}

\* faulty variant: the start of the window is overwritten by every
\* unhealthy probe
gateway_mark_down_always(st, t) == [st EXCEPT !.gateway_downtime_start = t]

\* if gateway_downtime_start is None: it becomes now
gateway_mark_down(st, t) ==
    IF st.gateway_downtime_start = None
    THEN [st EXCEPT !.gateway_downtime_start = t]
    ELSE st

\* faulty variant: recovery is not recorded
gateway_recovered_kept(st) == st

\* the else branch: a healthy probe clears gateway_downtime_start
gateway_recovered(st) == [st EXCEPT !.gateway_downtime_start = None]

\* faulty variant: any unhealthy probe restarts
gateway_overdue_any(downtime, timeout) == TRUE

\* the test that lets the gateway branch call restart_gateway
gateway_overdue(downtime, timeout) == downtime > timeout

\* the test that lets the dingtalk branch call restart_gateway
dingtalk_overdue(downtime) == downtime > dingtalk_timeout

\* whether the gateway branch escalates after restart_gateway returned False
escalation_due(ret, attempts) == ~ret /\ attempts >= restart_max_attempts

\* faulty variant: a healthy probe also resets the attempt counter
gateway_branch_resets_counter(st, lrt, attempts, t, status, outcome, cfg) ==
    IF status # "healthy"
    THEN LET st1 == gateway_mark_down(st, t)
             downtime == t - st1.gateway_downtime_start
         IN  IF gateway_overdue(downtime, cfg.gateway_timeout)
             THEN LET r == restart_gateway(st1, lrt, attempts, t, outcome)
                  IN  [ state |-> r.state,
                        last_restart_time |-> r.last_restart_time,
                        restart_attempts |-> r.restart_attempts,
                        saved |-> r.saved,
                        restart |-> <<r>>, at_call |-> st1,
                        escalate |-> escalation_due(r.ret, r.restart_attempts) ]
             ELSE [ state |-> st1, last_restart_time |-> lrt,
                    restart_attempts |-> attempts, saved |-> FALSE,
                    restart |-> <<>>, at_call |-> st1, escalate |-> FALSE ]
    ELSE [ state |-> gateway_recovered(st),
           last_restart_time |-> lrt, restart_attempts |-> 0,
           saved |-> FALSE, restart |-> <<>>, at_call |-> st,
           escalate |-> FALSE ]

\* Gateway branch at time t with probe result `status`. `restart` holds the
\* result of the restart_gateway call, if one was made, and `at_call` the
\* state it was made in.
gateway_branch(st, lrt, attempts, t, status, outcome, cfg) ==
    IF status # "healthy"
    THEN LET st1 == gateway_mark_down(st, t)
             downtime == t - st1.gateway_downtime_start
         IN  IF gateway_overdue(downtime, cfg.gateway_timeout)
             THEN LET r == restart_gateway(st1, lrt, attempts, t, outcome)
                  IN  [ state |-> r.state,
                        last_restart_time |-> r.last_restart_time,
                        restart_attempts |-> r.restart_attempts,
                        saved |-> r.saved,
                        restart |-> <<r>>, at_call |-> st1,
                        escalate |-> escalation_due(r.ret, r.restart_attempts) ]
             ELSE [ state |-> st1, last_restart_time |-> lrt,
                    restart_attempts |-> attempts, saved |-> FALSE,
                    restart |-> <<>>, at_call |-> st1, escalate |-> FALSE ]
    ELSE [ state |-> gateway_recovered(st),
           last_restart_time |-> lrt, restart_attempts |-> attempts,
           saved |-> FALSE, restart |-> <<>>, at_call |-> st,
           escalate |-> FALSE ]

\* Dingtalk branch at time t with probe result `status`. When
\* restart_gateway succeeds its _save_state writes `at_call` (with
\* failed_restarts = 0) before dingtalk_downtime_start is cleared in memory.
dingtalk_branch(st, lrt, attempts, t, status, outcome) ==
    IF status \notin {"healthy", "not_configured"}
    THEN LET st1 == IF st.dingtalk_downtime_start = None
                    THEN [st EXCEPT !.dingtalk_downtime_start = t]
                    ELSE st
             downtime == t - st1.dingtalk_downtime_start
         IN  IF dingtalk_overdue(downtime)
             THEN LET r == restart_gateway(st1, lrt, attempts, t, outcome)
                  IN  [ state |-> IF r.ret
                                  THEN [r.state EXCEPT !.dingtalk_downtime_start = None]
                                  ELSE r.state,
                        file_state |-> r.state,
                        last_restart_time |-> r.last_restart_time,
                        restart_attempts |-> r.restart_attempts,
                        saved |-> r.saved,
                        restart |-> <<r>>, at_call |-> st1,
                        recovered_notify |-> r.ret ]
             ELSE [ state |-> st1, file_state |-> st1,
                    last_restart_time |-> lrt,
                    restart_attempts |-> attempts, saved |-> FALSE,
                    restart |-> <<>>, at_call |-> st1,
                    recovered_notify |-> FALSE ]
    ELSE [ state |-> [st EXCEPT !.dingtalk_downtime_start = None],
           file_state |-> st,
           last_restart_time |-> lrt, restart_attempts |-> attempts,
           saved |-> FALSE, restart |-> <<>>, at_call |-> st,
           recovered_notify |-> FALSE ]

(* ------------------------------------------------------------------ *)
(* MiniMax quota: check_minimax_quota and the flag of run_single_check *)
(* ------------------------------------------------------------------ *)
\* numbers of entries of sessions.json's "active" list that are sampled
ActiveCounts == {0, 20}

\* usage_estimate >= threshold, usage_estimate = len(active) * 5
threshold_reached(active) == active * usage_per_active >= minimax_quota_threshold

\* faulty variant: the flag is not consulted (level-triggered alert)
quota_step_level(st, reached) ==
    [ state  |-> [st EXCEPT !.minimax_quota_low = reached],
      notify |-> reached ]

\* the if / elif on quota["threshold_reached"] and minimax_quota_low
quota_step(st, reached) ==
    IF reached /\ ~st.minimax_quota_low
    THEN [state |-> [st EXCEPT !.minimax_quota_low = TRUE], notify |-> TRUE]
    ELSE IF ~reached
    THEN [state |-> [st EXCEPT !.minimax_quota_low = FALSE], notify |-> FALSE]
    ELSE [state |-> st, notify |-> FALSE]

(* ------------------------------------------------------------------ *)
(* State of the monitor process and of its environment                 *)
(* ------------------------------------------------------------------ *)
VARIABLES
    pc,                 \* position of the daemon loop / run_single_check
    now,                \* the clock, in seconds
    cycles,             \* number of cycles started so far
    config,             \* self.config (gateway_timeout, monitor_interval)
    state,              \* self.state
    file,               \* the state file .asm_state.json
    restart_attempts,   \* self.restart_attempts
    last_restart_time,  \* self.last_restart_time
    sessions,           \* sessions.json as read in this cycle
    context_info,       \* what check_context_usage returned in this cycle
    log,                \* what the current cycle did (observation)
    hist                \* what the run did so far (observation)

vars == << pc, now, cycles, config, state, file, restart_attempts,
           last_restart_time, sessions, context_info, log, hist >>

maintenance_period == 20

\* sessions.json contents sampled by the daemon cycles: one allow-listed and
\* one non-allow-listed topic session, at 0 %, 50 % or 90 % of the default
\* context limit
MainKeys == {K_464, K_999}
MainData == { [totalTokens |-> 0], [totalTokens |-> 100], [totalTokens |-> 180] }

RECURSIVE DocsOver(_, _, _)
\* all documents of at most n entries over the given keys and data
DocsOver(keys, data, n) ==
    IF n = 0 THEN { <<>> }
    ELSE LET shorter == DocsOver(keys, data, n - 1)
         IN  shorter \cup
             { Append(d, [key |-> k, data |-> x]) :
                 d \in { e \in shorter : Len(e) = n - 1 },
                 k \in keys, x \in data }

\* a JSON object has each key once
DistinctKeys(doc) ==
    \A i, j \in 1..Len(doc) : i # j => doc[i].key # doc[j].key

MainStores ==
    { <<>> } \cup
    { <<d>> : d \in { e \in DocsOver(MainKeys, MainData, MaxSessions) :
                        DistinctKeys(e) } }

empty_log ==
    [ persisted_at_start |-> {},
      maintenance        |-> FALSE,
      count_before       |-> 0,
      ctx                |-> "none",
      summary            |-> <<>>,
      summary_ok         |-> <<>>,
      create             |-> <<>>,
      rollover_notify    |-> 0,
      cc_notify          |-> 0,
      gw                 |-> "none",
      gw_start_before    |-> None,
      gw_time            |-> None,
      first_overdue      |-> FALSE,
      dt                 |-> "none",
      dt_start_before    |-> None,
      calls              |-> <<>>,
      escalations        |-> 0,
      quota              |-> <<>> ]

empty_hist ==
    [ summary_calls     |-> <<>>,
      esc_since_reset   |-> 0,
      esc_in_outage     |-> 0,
      last_attempt_time |-> None,
      last_ok_time      |-> None,
      last_gw           |-> "none",
      window_overdue    |-> FALSE,
      prev_reached      |-> FALSE,
      crashes           |-> 0,
      crashed_in_orch   |-> FALSE,
      running           |-> TRUE,
      signal_pc         |-> "none" ]

\* ASMMonitor.__init__ on a machine without a state file
Init ==
    /\ pc = "idle"
    /\ now = 0
    /\ cycles = 0
    /\ config \in Configs
    /\ file = no_file
    /\ state = load_state(no_file)
    /\ restart_attempts = 0
    /\ last_restart_time = None
    /\ sessions = <<>>
    /\ context_info = <<>>
    /\ log = empty_log
    /\ hist = empty_hist

(* ------------------------------------------------------------------ *)
(* run_single_check, step by step                                      *)
(* ------------------------------------------------------------------ *)
\* faulty variant: the loop does not test the flag
loop_continues_always(running) == TRUE

\* `while self.running`
loop_continues(running) == running

\* check_count bookkeeping and the periodic maintenance
StartCycle ==
    /\ pc = "idle"
    /\ loop_continues(hist.running)
    /\ cycles < MaxCycles
    /\ cycles' = cycles + 1
    /\ LET check_count == state.check_count + 1
       IN  /\ state' = [state EXCEPT !.check_count = check_count]
           /\ log' = [empty_log EXCEPT
                        !.persisted_at_start =
                            Range(load_state(file).sessions_processed),
                        !.maintenance = (check_count % maintenance_period = 0),
                        !.count_before = state.check_count]
    /\ pc' = "context"
    /\ UNCHANGED << now, config, file, restart_attempts, last_restart_time,
                    sessions, context_info, hist >>

\* faulty variant: the result is used without the test for None
context_route_unguarded(info) ==
    IF info = <<>> THEN "raise"
    ELSE IF info[1].all_sessions = <<>> THEN "nothing"
    ELSE IF info[1].highest = <<>> THEN "raise"
    ELSE IF ~info[1].needs_summary THEN "below"
    ELSE "dedup"

\* what run_single_check does with the result of check_context_usage:
\* nothing when it is None or has no session, a TypeError on
\* highest['session_key'] when highest is None, nothing more below the
\* threshold, the dedup gate otherwise
context_route(info) ==
    IF info = <<>> THEN "no_data"
    ELSE IF info[1].all_sessions = <<>> THEN "nothing"
    ELSE IF info[1].highest = <<>> THEN "raise"
    ELSE IF ~info[1].needs_summary THEN "below"
    ELSE "dedup"

\* check_context_usage, the use of `highest`, and the dedup gate, with
\* sessions.json holding one of `stores`
ContextCheckOn(stores) ==
    /\ pc = "context"
    /\ \E store \in stores :
         LET info  == check_context_usage(store)
             route == context_route(info)
         IN  /\ sessions' = store
             /\ context_info' = info
             /\ IF route \in {"no_data", "nothing", "below"}
                THEN /\ pc' = "cc"
                     /\ log' = [log EXCEPT !.ctx = route]
                     /\ UNCHANGED << state, file >>
                ELSE IF route = "raise"
                THEN /\ pc' = "abandoned"
                     /\ log' = [log EXCEPT !.ctx = route]
                     /\ UNCHANGED << state, file >>
                ELSE LET g == dedup_gate(load_state(file),
                                         info[1].highest[1].session_key)
                     IN  /\ state' = g.state
                         /\ IF g.skip
                            THEN /\ pc' = "cc"
                                 /\ log' = [log EXCEPT !.ctx = "processed"]
                                 /\ UNCHANGED file
                            ELSE /\ pc' = "marked"
                                 /\ log' = [log EXCEPT !.ctx = "rollover"]
                                 /\ file' = mark_persist(file, g.state)
    /\ UNCHANGED << now, cycles, config, restart_attempts, last_restart_time,
                    hist >>

ContextCheck == ContextCheckOn(MainStores)

\* last_summary_time is recorded and saved
MarkSummaryTime ==
    /\ pc = "marked"
    /\ state' = [state EXCEPT !.last_summary_time = 0]
    /\ file' = save_state(state')
    /\ pc' = "summary"
    /\ UNCHANGED << now, cycles, config, restart_attempts, last_restart_time,
                    sessions, context_info, log, hist >>

\* faulty variant: the result of trigger_summary is not tested
after_summary_unchecked(ok) == "create"

\* `if self.trigger_summary(context_for_summary):`
after_summary(ok) == IF ok THEN "create" ELSE "cc"

\* trigger_summary(context_for_summary): exit code 0, or a failure
\* (non-zero exit, timeout, exception)
TriggerSummary ==
    /\ pc = "summary"
    /\ \E ok \in BOOLEAN :
         LET key == context_info[1].highest[1].session_key
         IN  /\ log' = [log EXCEPT !.summary = Append(@, key),
                                   !.summary_ok = Append(@, ok)]
             /\ hist' = [hist EXCEPT !.summary_calls = Append(@, key)]
             /\ pc' = after_summary(ok)
    /\ UNCHANGED << now, cycles, config, state, file, restart_attempts,
                    last_restart_time, sessions, context_info >>

\* create_new_session(context_for_summary); its result is not used
CreateNewSession ==
    /\ pc = "create"
    /\ LET key == context_info[1].highest[1].session_key
       IN  \E created \in BOOLEAN :
             log' = [log EXCEPT !.create =
                       Append(@, [key |-> key, ok |-> created])]
    /\ pc' = "notify"
    /\ UNCHANGED << now, cycles, config, state, file, restart_attempts,
                    last_restart_time, sessions, context_info, hist >>

\* the rollover notify_feed
NotifyRollover ==
    /\ pc = "notify"
    /\ log' = [log EXCEPT !.rollover_notify = @ + 1]
    /\ pc' = "cc"
    /\ UNCHANGED << now, cycles, config, state, file, restart_attempts,
                    last_restart_time, sessions, context_info, hist >>

\* check_all_cc_context and handle_cc_over_threshold for each coding agent
\* over the threshold (n of them): notify, append, _save_state
CCCheck ==
    /\ pc = "cc"
    /\ \E n \in 0..2 :
         /\ file' = IF n > 0 THEN save_state(state) ELSE file
         /\ log' = [log EXCEPT !.cc_notify = n]
    /\ pc' = "gateway"
    /\ sessions' = <<>>
    /\ context_info' = <<>>
    /\ UNCHANGED << now, cycles, config, state, restart_attempts,
                    last_restart_time, hist >>

\* what the cycle log keeps of the restart_gateway call of one branch
call_records(branch, b, lrt, attempts, t, h) ==
    IF b.restart = <<>> THEN <<>>
    ELSE LET r == b.restart[1]
         IN  << [ branch          |-> branch,
                  t               |-> t,
                  downtime_start  |-> IF branch = "gateway"
                                      THEN b.at_call.gateway_downtime_start
                                      ELSE b.at_call.dingtalk_downtime_start,
                  prev_attempt    |-> h.last_attempt_time,
                  prev_ok         |-> h.last_ok_time,
                  ret             |-> r.ret,
                  attempted       |-> r.attempted,
                  stop            |-> r.stop,
                  start           |-> r.start,
                  saved           |-> r.saved,
                  lrt_before      |-> lrt,
                  lrt_after       |-> r.last_restart_time,
                  attempts_before |-> attempts,
                  attempts_after  |-> r.restart_attempts,
                  state_kept      |-> (r.state = b.at_call) ] >>

\* history of the restart attempts after one branch
attempt_hist(h, b, t) ==
    LET called    == b.restart # <<>>
        attempted == called /\ b.restart[1].attempted
        ok        == called /\ b.restart[1].ret
    IN  [h EXCEPT
           !.last_attempt_time = IF attempted THEN t ELSE @,
           !.last_ok_time      = IF ok THEN t ELSE @,
           !.esc_since_reset   = IF ok THEN 0 ELSE @,
           !.esc_in_outage     = IF ok THEN 0 ELSE @]

\* check_gateway_health and the gateway branch
GatewayCheck ==
    /\ pc = "gateway"
    /\ \E status \in GwStatuses, outcome \in RestartOutcomes :
         LET b == gateway_branch(state, last_restart_time, restart_attempts,
                                 now, status, outcome, config)
             overdue == /\ b.state.gateway_downtime_start # None
                        /\ now - b.state.gateway_downtime_start
                             > config.gateway_timeout
             h == attempt_hist(hist, b, now)
         IN  /\ state' = b.state
             /\ last_restart_time' = b.last_restart_time
             /\ restart_attempts' = b.restart_attempts
             /\ file' = IF b.saved THEN save_state(b.state) ELSE file
             /\ log' = [log EXCEPT
                          !.gw = status,
                          !.gw_start_before = state.gateway_downtime_start,
                          !.gw_time = now,
                          !.first_overdue = overdue /\ ~hist.window_overdue,
                          !.calls = @ \o call_records("gateway", b,
                                         last_restart_time, restart_attempts,
                                         now, hist),
                          !.escalations = @ + (IF b.escalate THEN 1 ELSE 0)]
             /\ hist' = [h EXCEPT
                           !.esc_since_reset =
                               IF b.escalate THEN @ + 1 ELSE @,
                           !.esc_in_outage =
                               IF status = "healthy" THEN 0
                               ELSE IF b.escalate THEN @ + 1 ELSE @,
                           !.last_gw = IF status = "healthy"
                                       THEN "healthy" ELSE "unhealthy",
                           !.window_overdue =
                               IF status = "healthy" THEN FALSE
                               ELSE (@ \/ overdue)]
    /\ pc' = "dingtalk"
    /\ UNCHANGED << now, cycles, config, sessions, context_info >>

\* check_dingtalk_health and the dingtalk branch
DingtalkCheck ==
    /\ pc = "dingtalk"
    /\ \E status \in DtStatuses, outcome \in RestartOutcomes :
         LET b == dingtalk_branch(state, last_restart_time, restart_attempts,
                                  now, status, outcome)
         IN  /\ state' = b.state
             /\ last_restart_time' = b.last_restart_time
             /\ restart_attempts' = b.restart_attempts
             /\ file' = IF b.saved THEN save_state(b.file_state) ELSE file
             /\ log' = [log EXCEPT
                          !.dt = IF status \in {"healthy", "not_configured"}
                                 THEN "up" ELSE "down",
                          !.dt_start_before = state.dingtalk_downtime_start,
                          !.calls = @ \o call_records("dingtalk", b,
                                         last_restart_time, restart_attempts,
                                         now, hist)]
             /\ hist' = attempt_hist(hist, b, now)
    /\ pc' = "quota"
    /\ UNCHANGED << now, cycles, config, sessions, context_info >>

\* check_minimax_quota, the quota flag, and the final _save_state
QuotaCheck ==
    /\ pc = "quota"
    /\ \E active \in ActiveCounts :
         LET reached == threshold_reached(active)
             q == quota_step(state, reached)
         IN  /\ state' = q.state
             /\ file' = save_state(q.state)
             /\ log' = [log EXCEPT !.quota =
                          << [ reached      |-> reached,
                               prev_reached |-> hist.prev_reached,
                               notify       |-> q.notify ] >>]
             /\ hist' = [hist EXCEPT !.prev_reached = reached]
    /\ pc' = "sleep"
    /\ UNCHANGED << now, cycles, config, restart_attempts, last_restart_time,
                    sessions, context_info >>

(* ------------------------------------------------------------------ *)
(* run_daemon                                                          *)
(* ------------------------------------------------------------------ *)
\* time.sleep(monitor_interval) after a completed cycle
Sleep ==
    /\ pc = "sleep"
    /\ now' = now + config.monitor_interval
    /\ pc' = "idle"
    /\ log' = empty_log
    /\ UNCHANGED << cycles, config, state, file, restart_attempts,
                    last_restart_time, sessions, context_info, hist >>

\* faulty variant: the exception leaves the loop
after_exception_propagates == "stopped"

\* `except Exception` inside `while self.running`: the loop goes on
after_exception == "idle"

\* the except branch of the loop: the cycle is abandoned, time.sleep(10)
SleepAfterException ==
    /\ pc = "abandoned"
    /\ now' = now + exception_sleep
    /\ pc' = after_exception
    /\ sessions' = <<>>
    /\ context_info' = <<>>
    /\ log' = empty_log
    /\ UNCHANGED << cycles, config, state, file, restart_attempts,
                    last_restart_time, hist >>

Next ==
    \/ StartCycle
    \/ ContextCheck
    \/ MarkSummaryTime
    \/ TriggerSummary
    \/ CreateNewSession
    \/ NotifyRollover
    \/ CCCheck
    \/ GatewayCheck
    \/ DingtalkCheck
    \/ QuotaCheck
    \/ Sleep
    \/ SleepAfterException

Spec == Init /\ [][Next]_vars

MaxLiveCycles == 2

\* the loop, explored for MaxLiveCycles cycles
NextLive == Next /\ cycles' <= MaxLiveCycles

\* the daemon's thread keeps running: a step of the loop that can be taken
\* is eventually taken
SpecLive == Init /\ [][NextLive]_vars /\ WF_vars(NextLive)

(* ------------------------------------------------------------------ *)
(* The loop with two allow-listed sessions in sessions.json            *)
(* ------------------------------------------------------------------ *)
MaxListCycles == 3

ListKeys == {K_464, K_plain}
ListData == { [totalTokens |-> 0], [totalTokens |-> 180] }

ListStores ==
    { <<>> } \cup
    { <<d>> : d \in { e \in DocsOver(ListKeys, ListData, MaxSessions) :
                        DistinctKeys(e) } }

ListContextCheck == ContextCheckOn(ListStores)

NextList ==
    \/ StartCycle /\ cycles' <= MaxListCycles
    \/ ListContextCheck
    \/ MarkSummaryTime
    \/ TriggerSummary
    \/ CreateNewSession
    \/ NotifyRollover
    \/ CCCheck
    \/ GatewayCheck
    \/ DingtalkCheck
    \/ QuotaCheck
    \/ Sleep
    \/ SleepAfterException

SpecList == Init /\ [][NextList]_vars

(* ------------------------------------------------------------------ *)
(* SIGTERM / SIGINT                                                    *)
(* ------------------------------------------------------------------ *)
MaxStopCycles == 2

\* _signal_handler, run between two steps of the loop: during a cycle, or
\* while the loop is in one of its two sleeps (pc = "sleep", "abandoned");
\* the interrupted call resumes when the handler returns
Signal ==
    /\ pc # "returned"
    /\ hist' = [hist EXCEPT
                  !.running = FALSE,
                  !.signal_pc = IF @ = "none" THEN pc ELSE @]
    /\ UNCHANGED << pc, now, cycles, config, state, file, restart_attempts,
                    last_restart_time, sessions, context_info, log >>

\* the loop test fails and run_daemon returns
ReturnFromDaemon ==
    /\ pc = "idle"
    /\ ~loop_continues(hist.running)
    /\ pc' = "returned"
    /\ UNCHANGED << now, cycles, config, state, file, restart_attempts,
                    last_restart_time, sessions, context_info, log, hist >>

\* the steps of the daemon's own thread
LoopStep ==
    \/ (Next /\ cycles' <= MaxStopCycles)
    \/ ReturnFromDaemon

NextStop ==
    \/ LoopStep
    \/ Signal

\* the daemon's thread keeps running; signals arrive or not
SpecStop == Init /\ [][NextStop]_vars /\ WF_vars(LoopStep)

(* ------------------------------------------------------------------ *)
(* The process is killed inside _save_state and started again          *)
(* ------------------------------------------------------------------ *)
MaxTornCycles == 2
MaxKills == 1

\* the file after open(state_file, 'w') truncated it and before json.dump
\* has written the whole document: json.load raises on it
torn_file == [status |-> "corrupt", doc |-> default_state]

\* positions whose next statement is a _save_state: the save after
\* last_summary_time is set, and the final save of the cycle
SavingPcs == {"marked", "quota"}

\* the process is killed between the open and the end of the dump, and a
\* new process is started
KilledInSave ==
    /\ pc \in SavingPcs
    /\ hist.crashes < MaxKills
    /\ file' = torn_file
    /\ pc' = "idle"
    /\ state' = load_state(torn_file)
    /\ restart_attempts' = 0
    /\ last_restart_time' = None
    /\ sessions' = <<>>
    /\ context_info' = <<>>
    /\ log' = empty_log
    /\ hist' = [hist EXCEPT
                  !.crashes = @ + 1,
                  !.esc_since_reset = 0,
                  !.esc_in_outage = 0]
    /\ UNCHANGED << now, cycles, config >>

NextTorn ==
    \/ (Next /\ cycles' <= MaxTornCycles)
    \/ KilledInSave

SpecTorn == Init /\ [][NextTorn]_vars

(* ------------------------------------------------------------------ *)
(* The process is killed and started again                             *)
(* ------------------------------------------------------------------ *)
MaxCrashes == 1
MaxCrashCycles == 2

OrchestrationPcs == {"summary", "create", "notify"}

\* The process dies at any point of the loop (between two steps) and a new
\* ASMMonitor is constructed: the state is loaded from the file and the
\* in-memory restart bookkeeping starts afresh.
Crash ==
    /\ hist.crashes < MaxCrashes
    /\ pc' = "idle"
    /\ state' = load_state(file)
    /\ restart_attempts' = 0
    /\ last_restart_time' = None
    /\ sessions' = <<>>
    /\ context_info' = <<>>
    /\ log' = empty_log
    /\ hist' = [hist EXCEPT
                  !.crashes = @ + 1,
                  !.crashed_in_orch = (@ \/ pc \in OrchestrationPcs),
                  !.esc_since_reset = 0]
    /\ UNCHANGED << now, cycles, config, file >>

\* the loop, explored for MaxCrashCycles cycles, or a crash
NextCrash ==
    \/ (Next /\ cycles' <= MaxCrashCycles)
    \/ Crash

SpecCrash == Init /\ [][NextCrash]_vars

(* ------------------------------------------------------------------ *)
(* Two ASMMonitor processes on the same state file and sessions.json   *)
(* ------------------------------------------------------------------ *)
\* Under SpecTwo the variables pc, cycles, state, context_info, log and
\* hist hold one value per process; file and sessions are shared.  Each
\* access to the state file is one step, so that the steps of the two
\* processes interleave between the re-read, the save of the mark, the
\* orchestration and the save at the end of the cycle.
MaxTwoCycles == 2

Instances == {1, 2}

\* sessions.json as sampled by a cycle: missing, or one allow-listed
\* session below or above the threshold
TwoStores ==
    { <<>>,
      << << [key |-> K_464, data |-> [totalTokens |-> 100]] >> >>,
      << << [key |-> K_464, data |-> [totalTokens |-> 180]] >> >> }

InitTwo ==
    /\ pc = [i \in Instances |-> "idle"]
    /\ cycles = [i \in Instances |-> 0]
    /\ state = [i \in Instances |-> load_state(no_file)]
    /\ context_info = [i \in Instances |-> <<>>]
    /\ log = [i \in Instances |-> [found |-> FALSE]]
    /\ hist = [i \in Instances |-> <<>>]
    /\ file = no_file
    /\ sessions = <<>>
    /\ now = 0
    /\ config = [gateway_timeout |-> 120, monitor_interval |-> 180]
    /\ restart_attempts = 0
    /\ last_restart_time = None

\* a cycle begins: check_count, check_context_usage and its route
TwoBegin(i) ==
    /\ pc[i] = "idle"
    /\ cycles[i] < MaxTwoCycles
    /\ cycles' = [cycles EXCEPT ![i] = @ + 1]
    /\ \E store \in TwoStores :
         LET info == check_context_usage(store)
         IN  /\ sessions' = store
             /\ context_info' = [context_info EXCEPT ![i] = info]
             /\ pc' = [pc EXCEPT ![i] =
                         IF context_route(info) = "dedup"
                         THEN "reread" ELSE "final"]
    /\ state' = [state EXCEPT ![i].check_count = @ + 1]
    /\ log' = [log EXCEPT ![i].found = FALSE]
    /\ UNCHANGED << now, config, file, restart_attempts, last_restart_time,
                    hist >>

\* self.state = self._load_state()
TwoReread(i) ==
    /\ pc[i] = "reread"
    /\ state' = [state EXCEPT ![i] = load_state(file)]
    /\ pc' = [pc EXCEPT ![i] = "test"]
    /\ UNCHANGED << now, cycles, config, file, restart_attempts,
                    last_restart_time, sessions, context_info, log, hist >>

\* the membership test and the append, on the process's own copy
TwoTest(i) ==
    /\ pc[i] = "test"
    /\ LET key == context_info[i][1].highest[1].session_key
           g   == dedup_gate(state[i], key)
       IN  /\ state' = [state EXCEPT ![i] = g.state]
           /\ log' = [log EXCEPT ![i].found =
                        key \in Range(state[i].sessions_processed)]
           /\ pc' = [pc EXCEPT ![i] = IF g.skip THEN "final" ELSE "save"]
    /\ UNCHANGED << now, cycles, config, file, restart_attempts,
                    last_restart_time, sessions, context_info, hist >>

\* _save_state() after the append (and after last_summary_time)
TwoSave(i) ==
    /\ pc[i] = "save"
    /\ file' = mark_persist(file, state[i])
    /\ pc' = [pc EXCEPT ![i] = "summary"]
    /\ UNCHANGED << now, cycles, config, state, restart_attempts,
                    last_restart_time, sessions, context_info, log, hist >>

\* trigger_summary and the rest of the orchestration
TwoSummary(i) ==
    /\ pc[i] = "summary"
    /\ hist' = [hist EXCEPT ![i] =
                  Append(@, context_info[i][1].highest[1].session_key)]
    /\ pc' = [pc EXCEPT ![i] = "final"]
    /\ UNCHANGED << now, cycles, config, state, file, restart_attempts,
                    last_restart_time, sessions, context_info, log >>

\* the _save_state() that ends the cycle
TwoFinal(i) ==
    /\ pc[i] = "final"
    /\ file' = save_state(state[i])
    /\ pc' = [pc EXCEPT ![i] = "idle"]
    /\ UNCHANGED << now, cycles, config, state, restart_attempts,
                    last_restart_time, sessions, context_info, log, hist >>

NextTwo ==
    \E i \in Instances :
        \/ TwoBegin(i)
        \/ TwoReread(i)
        \/ TwoTest(i)
        \/ TwoSave(i)
        \/ TwoSummary(i)
        \/ TwoFinal(i)

SpecTwo == InitTwo /\ [][NextTwo]_vars

(* ------------------------------------------------------------------ *)
(* check_context_usage applied to sampled sessions.json documents      *)
(* ------------------------------------------------------------------ *)
MaxCtxSessions == 2

CtxKeys == {K_plain, K_464, K_1816, K_999, K_abc, K_ext, K_topics, K_sub}

\* sampled session data, token counts in thousands: contextTokens absent
\* (the default of 200 applies) with usage 0 %, 50 %, exactly 80 % and 90 %;
\* contextTokens zero and negative; contextTokens 100 with usage exactly
\* 80 % and 79 %
CtxData ==
    { [totalTokens |-> n] : n \in {0, 100, 160, 180} } \cup
    { [totalTokens |-> 100, contextTokens |-> 0],
      [totalTokens |-> 180, contextTokens |-> -100],
      [totalTokens |-> 80,  contextTokens |-> 100],
      [totalTokens |-> 79,  contextTokens |-> 100] }

\* a missing or unparseable file, or a document of at most n sessions
CtxStores(n) ==
    { <<>> } \cup
    { <<d>> : d \in { e \in DocsOver(CtxKeys, CtxData, n) :
                        DistinctKeys(e) } }

InitCtx ==
    /\ pc = "ctx_input"
    /\ sessions \in CtxStores(MaxCtxSessions)
    /\ now = 0
    /\ cycles = 0
    /\ config = [gateway_timeout |-> 120, monitor_interval |-> 180]
    /\ file = no_file
    /\ state = load_state(no_file)
    /\ restart_attempts = 0
    /\ last_restart_time = None
    /\ context_info = <<>>
    /\ log = empty_log
    /\ hist = empty_hist

\* one call of check_context_usage on the sampled document
CtxApply ==
    /\ pc = "ctx_input"
    /\ context_info' = check_context_usage(sessions)
    /\ pc' = "ctx_done"
    /\ UNCHANGED << now, cycles, config, state, file, restart_attempts,
                    last_restart_time, sessions, log, hist >>

NextCtx == CtxApply

SpecCtx == InitCtx /\ [][NextCtx]_vars

(* ------------------------------------------------------------------ *)
(* MemoryConsolidator.deduplicate applied to sampled texts             *)
(* ------------------------------------------------------------------ *)
\* A text is a sequence of characters. In this part `sessions` holds the
\* text given to deduplicate, `context_info` what deduplicate returned for
\* it, and `log` what it returned for that result.
MaxTextLen == 6

TextChars == {"a", "b", " ", "\n"}
Whitespace == {" ", "\n"}

RECURSIVE TextsOfLen(_)
TextsOfLen(n) ==
    IF n = 0 THEN { <<>> }
    ELSE { Append(t, c) : t \in TextsOfLen(n - 1), c \in TextChars }

\* the texts of at most n characters
Texts(n) == UNION { TextsOfLen(k) : k \in 0..n }

RECURSIVE split_from(_, _, _, _)
\* content.split('\n') from character i on, `cur` being the line under
\* construction and `acc` the lines already closed
split_from(content, i, cur, acc) ==
    IF i > Len(content) THEN Append(acc, cur)
    ELSE IF content[i] = "\n"
         THEN split_from(content, i + 1, <<>>, Append(acc, cur))
         ELSE split_from(content, i + 1, Append(cur, content[i]), acc)

\* content.split('\n'): always at least one line
split_lines(content) == split_from(content, 1, <<>>, <<>>)

RECURSIVE lstrip(_)
lstrip(line) ==
    IF line # <<>> /\ Head(line) \in Whitespace THEN lstrip(Tail(line))
    ELSE line

RECURSIVE rstrip(_)
rstrip(line) ==
    IF line # <<>> /\ line[Len(line)] \in Whitespace
    THEN rstrip(SubSeq(line, 1, Len(line) - 1))
    ELSE line

\* line.strip()
strip(line) == rstrip(lstrip(line))

\* faulty variant: lines are compared as they are
seen_key_raw(line) == line

\* what is looked up in, and added to, `seen`
seen_key(line) == strip(line)

RECURSIVE dedup_scan(_, _, _, _)
\* the for-loop over lines, from line i on
dedup_scan(lines, i, seen, result) ==
    IF i > Len(lines) THEN result
    ELSE LET line == lines[i]
             line_stripped == seen_key(line)
         IN  IF line_stripped # <<>> /\ line_stripped \notin seen
             THEN dedup_scan(lines, i + 1, seen \cup {line_stripped},
                             Append(result, line))
             ELSE dedup_scan(lines, i + 1, seen, result)

RECURSIVE join_lines(_)
\* '\n'.join(lines)
join_lines(lines) ==
    IF lines = <<>> THEN <<>>
    ELSE IF Len(lines) = 1 THEN lines[1]
    ELSE lines[1] \o <<"\n">> \o join_lines(Tail(lines))

deduplicate(content) ==
    join_lines(dedup_scan(split_lines(content), 1, {}, <<>>))

InitDedup ==
    /\ pc = "dedup_input"
    /\ sessions \in Texts(MaxTextLen)
    /\ context_info = <<>>
    /\ log = <<>>
    /\ now = 0
    /\ cycles = 0
    /\ config = [gateway_timeout |-> 120, monitor_interval |-> 180]
    /\ file = no_file
    /\ state = load_state(no_file)
    /\ restart_attempts = 0
    /\ last_restart_time = None
    /\ hist = empty_hist

\* deduplicate on the sampled text
DedupApply ==
    /\ pc = "dedup_input"
    /\ context_info' = deduplicate(sessions)
    /\ pc' = "dedup_once"
    /\ UNCHANGED << now, cycles, config, state, file, restart_attempts,
                    last_restart_time, sessions, log, hist >>

\* deduplicate on its own result
DedupAgain ==
    /\ pc = "dedup_once"
    /\ log' = deduplicate(context_info)
    /\ pc' = "dedup_twice"
    /\ UNCHANGED << now, cycles, config, state, file, restart_attempts,
                    last_restart_time, sessions, context_info, hist >>

NextDedup ==
    \/ DedupApply
    \/ DedupAgain

SpecDedup == InitDedup /\ [][NextDedup]_vars

(* ------------------------------------------------------------------ *)
(* GatewayMonitor.monitor (gateway_monitor.py)                         *)
(* ------------------------------------------------------------------ *)
\* In this part `state` holds the GatewayMonitor's self.state (status and
\* restart_attempts), `context_info` the loop's local consecutive_failures,
\* `cycles` the number of iterations done, `log` what the last iteration
\* did and `hist` what the run did so far.
MaxChecks == 5

gm_restart_attempts == 3
gm_restart_cooldown == 120
check_interval == 90

\* what check_health can return
HealthStatuses == {"running", "not_running", "error", "stale"}

\* one attempt of restart(): the start command succeeded and the check_health
\* that follows returned "running" or "not_running", or the start command
\* failed or a command raised
AttemptOutcomes == {"running", "not_running", "start_failed"}

RECURSIVE restart_from(_, _, _)
\* the for-loop of restart() from `attempt` on; outs[k] is the outcome of
\* attempt k. `slept` counts the time.sleep(restart_cooldown) executed.
restart_from(outs, attempt, st) ==
    IF attempt > gm_restart_attempts
    THEN [ success |-> FALSE, attempts |-> gm_restart_attempts,
           slept |-> gm_restart_attempts,
           state |-> [st EXCEPT !.restart_attempts = gm_restart_attempts] ]
    ELSE IF outs[attempt] = "running"
    THEN [ success |-> TRUE, attempts |-> attempt, slept |-> attempt - 1,
           state |-> [st EXCEPT !.status = "running",
                                !.restart_attempts = 0] ]
    ELSE restart_from(outs, attempt + 1,
             IF outs[attempt] = "not_running"
             THEN [st EXCEPT !.status = "not_running"] ELSE st)

\* GatewayMonitor.restart()
gm_restart(outs, st) == restart_from(outs, 1, st)

\* faulty variant: the second failure restarts
restart_due_early(consecutive_failures) == consecutive_failures >= 2

\* `if consecutive_failures >= 3`
restart_due(consecutive_failures) == consecutive_failures >= 3

\* faulty variant: a failed restart also clears the counter
after_restart_cleared(success, consecutive_failures) == 0

\* consecutive_failures after restart() returned
after_restart(success, consecutive_failures) ==
    IF success THEN 0 ELSE consecutive_failures

\* one iteration of the while-loop on health status `status`
monitor_iteration(st, consecutive_failures, status, outs) ==
    LET st1 == [st EXCEPT !.status = status]
    IN  IF status # "running"
        THEN LET cf == consecutive_failures + 1
             IN  IF restart_due(cf)
                 THEN LET r == gm_restart(outs, st1)
                      IN  [ state |-> r.state,
                            consecutive_failures |->
                                after_restart(r.success, cf),
                            restart |-> <<r>> ]
                 ELSE [ state |-> st1, consecutive_failures |-> cf,
                        restart |-> <<>> ]
        ELSE [ state |-> st1, consecutive_failures |-> 0,
               restart |-> <<>> ]

\* GatewayMonitor.__init__ without a state file, and the start of monitor()
InitMonitor ==
    /\ pc = "monitor"
    /\ state = [status |-> "unknown", restart_attempts |-> 0]
    /\ context_info = 0
    /\ cycles = 0
    /\ now = 0
    /\ log = [ status |-> "none", restart |-> <<>>, failures_before |-> 0 ]
    /\ hist = [ streak |-> 0, last_restart_failed |-> FALSE ]
    /\ config = [gateway_timeout |-> 120, monitor_interval |-> 180]
    /\ file = no_file
    /\ restart_attempts = 0
    /\ last_restart_time = None
    /\ sessions = <<>>

\* one iteration: check_health, the restart if it is due, and the sleeps
MonitorIteration ==
    /\ pc = "monitor"
    /\ cycles < MaxChecks
    /\ cycles' = cycles + 1
    /\ \E status \in HealthStatuses,
          outs \in [1..gm_restart_attempts -> AttemptOutcomes] :
         LET it == monitor_iteration(state, context_info, status, outs)
             slept == IF it.restart = <<>> THEN 0 ELSE it.restart[1].slept
         IN  /\ state' = it.state
             /\ context_info' = it.consecutive_failures
             /\ now' = now + slept * gm_restart_cooldown + check_interval
             /\ log' = [ status |-> status,
                         restart |-> IF it.restart = <<>> THEN <<>>
                                     ELSE << it.restart[1].success >>,
                         failures_before |-> context_info ]
             /\ hist' = [ streak |-> IF status = "running" THEN 0
                                     ELSE hist.streak + 1,
                          last_restart_failed |->
                              IF status = "running" THEN FALSE
                              ELSE IF it.restart = <<>>
                                   THEN hist.last_restart_failed
                                   ELSE ~it.restart[1].success ]
    /\ UNCHANGED << pc, config, file, restart_attempts, last_restart_time,
                    sessions >>

NextMonitor == MonitorIteration

SpecMonitor == InitMonitor /\ [][NextMonitor]_vars

(* ------------------------------------------------------------------ *)
(* Properties                                                          *)
(* ------------------------------------------------------------------ *)
\* a key whose topic is present and outside the allow-list
InvalidTopicKey(key) ==
    LET topic == extract_topic(key)
    IN  TopicTruthy(topic) /\ topic \notin { <<t>> : t \in valid_topics }

\* the entries of a document that are valid sessions: agent:main keys whose
\* topic is absent or allow-listed
ValidEntries(doc) ==
    { i \in 1..Len(doc) :
        HasAgentMain(doc[i].key) /\ ~InvalidTopicKey(doc[i].key) }

\* usage of entry i of a document, as the data model defines it
EntryUsage(doc, i) ==
    usage_of(Get(doc[i].data, "totalTokens", 0),
             Get(doc[i].data, "contextTokens", default_context_tokens))

\* C3: check_context_usage returns as highest a valid session whose usage
\* is maximal among the valid sessions, the first such in iteration order;
\* a session with a non-allow-listed topic is never returned.
C3_HighestIsFirstMaximalValid ==
    (pc = "ctx_done" /\ sessions # <<>> /\ ValidEntries(sessions[1]) # {}) =>
        LET doc == sessions[1]
            best == CHOOSE i \in ValidEntries(doc) :
                      /\ \A j \in ValidEntries(doc) :
                           UsageGE(EntryUsage(doc, i), EntryUsage(doc, j))
                      /\ \A j \in ValidEntries(doc) :
                           j < i => UsageGT(EntryUsage(doc, i), EntryUsage(doc, j))
        IN  /\ context_info # <<>>
            /\ context_info[1].highest # <<>>
            /\ context_info[1].highest[1].session_key = doc[best].key

\* the highest session of this cycle is at or above context_threshold
HighestOverThreshold ==
    /\ context_info # <<>>
    /\ context_info[1].highest # <<>>
    /\ context_info[1].needs_summary

HighestKey == context_info[1].highest[1].session_key

Count(seq, x) == Cardinality({ i \in 1..Len(seq) : seq[i] = x })

PersistedProcessed == Range(load_state(file).sessions_processed)

\* C1: once a session key is in the persisted sessions_processed list, a
\* cycle in which that session is the highest one at or above the threshold
\* calls none of trigger_summary, create_new_session and the rollover
\* notify_feed; no key is ever passed to trigger_summary twice.
C1_AtMostOnceRollover ==
    /\ (HighestOverThreshold /\ HighestKey \in log.persisted_at_start) =>
          /\ pc \notin {"marked", "summary", "create", "notify"}
          /\ log.summary = <<>>
          /\ log.create = <<>>
          /\ log.rollover_notify = 0
    /\ \A k \in MainKeys : Count(hist.summary_calls, k) <= 1

\* a cycle that found an already rolled-over session on top again and went
\* on to the other checks
C1_Witness ==
    /\ pc = "cc"
    /\ HighestOverThreshold
    /\ HighestKey \in log.persisted_at_start
    /\ HighestKey \in Range(hist.summary_calls)

\* C2: the key is in the state file from the moment it is marked, before
\* trigger_summary is invoked and through the orchestration, so that a
\* process killed at any point of the orchestration finds it after the
\* restart and no later cycle passes it to trigger_summary again.
C2_MarkBeforeOrchestrate ==
    /\ (pc \in {"marked"} \cup OrchestrationPcs) =>
          HighestKey \in PersistedProcessed
    /\ \A i \in 1..Len(log.summary) : log.summary[i] \in PersistedProcessed
    /\ \A k \in MainKeys : Count(hist.summary_calls, k) <= 1

\* the process was killed during an orchestration, and a later cycle of the
\* new process found the same session on top and skipped it
C2_Witness ==
    /\ hist.crashed_in_orch
    /\ pc = "cc"
    /\ HighestOverThreshold
    /\ HighestKey \in Range(hist.summary_calls)
    /\ log.summary = <<>>

\* C4: a key whose topic is outside the allow-list never appears in
\* all_sessions, is never in sessions_processed (in memory or in the file)
\* and is never passed to trigger_summary or create_new_session.
C4_InvalidTopicExcluded ==
    \A k \in MainKeys : InvalidTopicKey(k) =>
        /\ context_info # <<>> =>
              \A i \in 1..Len(context_info[1].all_sessions) :
                  context_info[1].all_sessions[i].session_key # k
        /\ k \notin Range(state.sessions_processed)
        /\ k \notin PersistedProcessed
        /\ k \notin Range(log.summary)
        /\ \A i \in 1..Len(log.create) : log.create[i].key # k
        /\ k \notin Range(hist.summary_calls)

\* a cycle whose sessions.json held a non-allow-listed session at 90 % and
\* that rolled over another session
C4_Witness ==
    /\ pc = "cc"
    /\ sessions # <<>>
    /\ \E i \in 1..Len(sessions[1]) :
          /\ InvalidTopicKey(sessions[1][i].key)
          /\ sessions[1][i].data.totalTokens = 180
    /\ log.summary # <<>>

\* C5: a cycle sends the quota notification exactly when threshold_reached
\* is True and was not True at the previous quota check, and leaves
\* minimax_quota_low equal to threshold_reached.
C5_QuotaEdgeTriggered ==
    \A i \in 1..Len(log.quota) :
        LET q == log.quota[i]
        IN  /\ q.notify <=> (q.reached /\ ~q.prev_reached)
            /\ state.minimax_quota_low = q.reached

\* a second consecutive cycle over the quota threshold, without notification
C5_Witness ==
    /\ pc = "sleep"
    /\ log.quota # <<>>
    /\ log.quota[1].reached
    /\ log.quota[1].prev_reached
    /\ ~log.quota[1].notify

\* C6: gateway_downtime_start becomes the probe time at an unhealthy probe
\* that finds it null, is kept by the later unhealthy probes, and is null
\* after a healthy probe (and in the file once that cycle has ended), until
\* the next probe.
C6_GatewayDowntimeTracking ==
    /\ log.gw = "healthy" => state.gateway_downtime_start = None
    /\ (log.gw = "unreachable" /\ log.gw_start_before = None) =>
          state.gateway_downtime_start = log.gw_time
    /\ (log.gw = "unreachable" /\ log.gw_start_before # None) =>
          state.gateway_downtime_start = log.gw_start_before
    /\ hist.last_gw = "healthy" => state.gateway_downtime_start = None
    /\ (pc \in {"sleep", "idle"} /\ hist.last_gw = "healthy") =>
          load_state(file).gateway_downtime_start = None

\* a cycle whose healthy probe ended a downtime window
C6_Witness ==
    /\ pc = "sleep"
    /\ log.gw = "healthy"
    /\ log.gw_start_before # None

GatewayCalls == { i \in 1..Len(log.calls) : log.calls[i].branch = "gateway" }
DingtalkCalls == { i \in 1..Len(log.calls) : log.calls[i].branch = "dingtalk" }

\* C7: each branch calls restart_gateway only when now minus its
\* downtime_start is strictly greater than its timeout (gateway_timeout,
\* 120 s for dingtalk); the first unhealthy probe of a window makes no call.
C7_RestartOnlyWhenOverdue ==
    /\ \A i \in GatewayCalls :
          /\ log.calls[i].downtime_start # None
          /\ log.calls[i].t - log.calls[i].downtime_start > config.gateway_timeout
    /\ \A i \in DingtalkCalls :
          /\ log.calls[i].downtime_start # None
          /\ log.calls[i].t - log.calls[i].downtime_start > dingtalk_timeout
    /\ (log.gw = "unreachable" /\ log.gw_start_before = None) =>
          GatewayCalls = {}
    /\ (log.dt = "down" /\ log.dt_start_before = None) =>
          DingtalkCalls = {}

\* the gateway branch launched the stop command of a restart
C7_Witness ==
    \E i \in GatewayCalls : log.calls[i].stop

\* a restart_gateway call that did nothing
Suppressed(c) ==
    /\ ~c.ret
    /\ ~c.stop
    /\ ~c.start
    /\ ~c.saved
    /\ c.lrt_after = c.lrt_before
    /\ c.attempts_after = c.attempts_before
    /\ c.state_kept

\* C8: a restart_gateway call made less than restart_cooldown seconds after
\* the previous restart attempt, successful or failed, returns False, runs
\* neither the stop nor the start command and changes neither
\* last_restart_time, restart_attempts nor the state.
C8_CooldownAfterAnyAttempt ==
    \A i \in 1..Len(log.calls) :
        LET c == log.calls[i]
        IN  (c.prev_attempt # None /\ c.t - c.prev_attempt < restart_cooldown)
                => Suppressed(c)

\* C9: counting from restart_attempts = 0, no escalation is sent while
\* restart_attempts is below restart_max_attempts, and when it equals
\* restart_max_attempts exactly one escalation has been sent.
C9_EscalateOnceAtMax ==
    /\ restart_attempts < restart_max_attempts => hist.esc_since_reset = 0
    /\ restart_attempts = restart_max_attempts => hist.esc_since_reset = 1

\* number of restart_gateway calls of the cycle whose stop command ran
Executed == Cardinality({ i \in 1..Len(log.calls) : log.calls[i].stop })

ChecksDone ==
    /\ log.gw # "none"
    /\ log.dt # "none"
    /\ log.quota # <<>>

SummaryFailed == log.summary_ok # <<>> /\ ~log.summary_ok[1]

\* C11: when trigger_summary fails, the cycle calls neither
\* create_new_session nor the rollover notify_feed, is not abandoned, and
\* goes on through the coding-agent, gateway, dingtalk and quota checks.
C11_SummaryFailureShortCircuits ==
    SummaryFailed =>
        /\ log.create = <<>>
        /\ log.rollover_notify = 0
        /\ pc \in {"cc", "gateway", "dingtalk", "quota", "sleep"}
        /\ pc = "sleep" => ChecksDone

\* a cycle whose trigger_summary failed, at its end
C11_Witness ==
    /\ pc = "sleep"
    /\ SummaryFailed
    /\ ChecksDone

\* C12: the rollover notification is sent only in a cycle in which
\* create_new_session succeeded.
C12_NotifyOnlyAfterCreate ==
    log.rollover_notify > 0 =>
        \E i \in 1..Len(log.create) : log.create[i].ok

\* C13: an exception inside run_single_check is caught at the loop: the
\* abandoned cycle is followed by the 10 s sleep and then by the next cycle;
\* a cycle begins only after the previous one has completed or been
\* abandoned.
C13_LoopSurvivesException ==
    /\ [][ /\ pc = "abandoned" =>
                (pc' = "idle" /\ now' = now + exception_sleep)
           /\ pc' = "context" => pc = "idle"
           /\ pc' = "idle" => pc \in {"sleep", "abandoned"} ]_vars
    /\ (pc = "abandoned") ~> (pc = "idle")
    /\ (pc = "idle" /\ cycles < MaxLiveCycles) ~> (pc = "context")

\* the first cycle was abandoned, the loop slept 10 s and began the second
C13_Witness ==
    /\ pc = "context"
    /\ cycles = 2
    /\ now = exception_sleep

\* C14: with sessions.json missing or unparseable, check_context_usage
\* returns None and the cycle is not abandoned, changes nothing of the dedup
\* state, makes no orchestration call, runs the gateway, dingtalk and quota
\* checks and ends with the state saved.
C14_NoDataIsNothingToDo ==
    /\ (pc \in {"cc", "abandoned"} /\ sessions = <<>>) =>
          /\ context_info = <<>>
          /\ log.ctx = "no_data"
    /\ log.ctx = "no_data" =>
          /\ pc \in {"cc", "gateway", "dingtalk", "quota", "sleep"}
          /\ log.summary = <<>>
          /\ log.create = <<>>
          /\ log.rollover_notify = 0
          /\ Range(state.sessions_processed) = log.persisted_at_start
          /\ PersistedProcessed = log.persisted_at_start
          /\ pc = "sleep" => (ChecksDone /\ file = save_state(state))

\* the end of a cycle that found no sessions.json
C14_Witness ==
    /\ pc = "sleep"
    /\ log.ctx = "no_data"
    /\ ChecksDone

\* C15: whatever check_context_usage returned and whatever the rollover
\* steps did, the cycle has probed the gateway by the time it ends.
C15_GatewayProbedEveryCycle ==
    pc \in {"sleep", "abandoned"} => log.gw # "none"

\* C16: a completed cycle leaves in the state file a check_count one
\* greater than the check_count the cycle started from.
C16_CheckCountIncrements ==
    pc = "sleep" => load_state(file).check_count = log.count_before + 1

\* C17: at the end of a cycle in which a branch's restart_gateway call
\* succeeded, that branch's downtime_start is null and restart_attempts is 0.
C17_SuccessClearsDowntime ==
    pc = "sleep" =>
        \A i \in 1..Len(log.calls) :
            log.calls[i].ret =>
                /\ restart_attempts = 0
                /\ i \in GatewayCalls => state.gateway_downtime_start = None
                /\ i \in DingtalkCalls => state.dingtalk_downtime_start = None

\* the branch's downtime_start after the call is the one it was called with
DowntimeKept(i) ==
    /\ i \in GatewayCalls =>
          state.gateway_downtime_start = log.calls[i].downtime_start
    /\ i \in DingtalkCalls =>
          state.dingtalk_downtime_start = log.calls[i].downtime_start

\* C18 as claimed: a restart_gateway call suppressed by the cooldown
\* advances restart_attempts and does not clear the downtime_start.
C18_SuppressedCountsAsFailure ==
    \A i \in 1..Len(log.calls) :
        ~log.calls[i].attempted =>
            /\ log.calls[i].attempts_after = log.calls[i].attempts_before + 1
            /\ DowntimeKept(i)

\* C18 amended: a restart_gateway call suppressed by the cooldown returns
\* False, leaves restart_attempts as it was and does not clear the
\* downtime_start.
C18_SuppressedLeavesCounter ==
    \A i \in 1..Len(log.calls) :
        ~log.calls[i].attempted =>
            /\ ~log.calls[i].ret
            /\ log.calls[i].attempts_after = log.calls[i].attempts_before
            /\ DowntimeKept(i)

\* a call suppressed by the cooldown
C18_Witness ==
    \E i \in 1..Len(log.calls) :
        /\ ~log.calls[i].attempted
        /\ log.calls[i].lrt_before # None
        /\ log.calls[i].t - log.calls[i].lrt_before < restart_cooldown

\* C20: a cycle that starts with the state file missing or unparseable
\* completes and leaves a well-formed state document; no cycle ends with
\* the file still missing.
C20_MissingStateNotFatal ==
    /\ pc = "sleep" => (file.status = "ok" /\ file.doc = state)
    /\ pc = "abandoned" => file.status = "ok"

\* C19: with two processes on one state file, a process is in the rollover
\* orchestration for a key only after its own re-read of the file did not
\* show the key, and with the key in its own sessions_processed; the gate
\* is per process, and does not keep both processes out (C19_Witness).
C19_GateIsPerProcess ==
    \A i \in Instances :
        pc[i] \in {"save", "summary"} =>
            /\ ~log[i].found
            /\ context_info[i][1].highest[1].session_key
                   \in Range(state[i].sessions_processed)

\* both processes, each in its first cycle, are about to invoke
\* trigger_summary for the same session key
C19_Witness ==
    /\ \A i \in Instances : pc[i] = "summary" /\ cycles[i] = 1
    /\ context_info[1][1].highest[1].session_key
           = context_info[2][1].highest[1].session_key

C29_HighestPresent ==
    (pc = "ctx_done" /\ context_info # <<>>
        /\ context_info[1].all_sessions # <<>>) =>
        /\ context_info[1].highest # <<>>
        /\ context_info[1].highest[1] \in Range(context_info[1].all_sessions)

\* C23: restart_attempts goes down only in a step whose restart_gateway
\* call succeeded, and then to 0; a healthy gateway probe leaves it as it
\* was, and a step that escalates does not lower it.
C23_CounterResetOnlyBySuccess ==
    [][ /\ restart_attempts' < restart_attempts =>
             /\ restart_attempts' = 0
             /\ Len(log'.calls) = Len(log.calls) + 1
             /\ log'.calls[Len(log'.calls)].ret
        /\ (pc = "gateway" /\ log'.gw = "healthy") =>
             restart_attempts' = restart_attempts
        /\ (pc = "gateway" /\ log'.escalations > log.escalations) =>
             restart_attempts' >= restart_attempts ]_vars

\* a healthy probe has just closed a downtime window and the failures
\* counted during it are still counted
C23_Witness ==
    /\ pc = "dingtalk"
    /\ log.gw = "healthy"
    /\ log.gw_start_before # None
    /\ restart_attempts > 0

\* the persisted list, in file order
PersistedList == load_state(file).sessions_processed

\* s is an initial segment of t
IsPrefix(s, t) == Len(s) <= Len(t) /\ SubSeq(t, 1, Len(s)) = s

\* C24: the persisted sessions_processed list holds no key twice, and every
\* step leaves it as it was or extends it at the end.
C24_ProcessedAppendOnly ==
    /\ [](\A i, j \in 1..Len(PersistedList) :
             i # j => PersistedList[i] # PersistedList[j])
    /\ [][ IsPrefix(PersistedList, PersistedList') ]_vars

\* two keys are persisted, and in a later cycle the file is re-read and
\* the first of them is found there
C24_Witness ==
    /\ Len(PersistedList) = 2
    /\ log.ctx = "processed"
    /\ Cardinality(log.persisted_at_start) = 2
    /\ HighestKey = PersistedList[1]

\* C26: within one gateway outage without a successful restart, at most one
\* escalation is sent.
C26_EscalationTerminal == hist.esc_in_outage <= 1

\* C28: a restart_gateway call made less than restart_cooldown seconds
\* after a successful restart, from either branch, runs neither the stop
\* nor the start command.
C28_NoSequenceAfterSuccess ==
    \A i \in 1..Len(log.calls) :
        LET c == log.calls[i]
        IN  (c.prev_ok # None /\ c.t - c.prev_ok < restart_cooldown) =>
                /\ ~c.stop
                /\ ~c.start
                /\ ~c.attempted

\* both branches ask for a restart in the cycle after a successful one,
\* less than restart_cooldown seconds later
C28_Witness ==
    /\ \E i \in GatewayCalls :
         /\ log.calls[i].prev_ok # None
         /\ log.calls[i].t > log.calls[i].prev_ok
         /\ log.calls[i].t - log.calls[i].prev_ok < restart_cooldown
    /\ \E i \in DingtalkCalls :
         /\ log.calls[i].prev_ok # None
         /\ log.calls[i].t > log.calls[i].prev_ok
         /\ log.calls[i].t - log.calls[i].prev_ok < restart_cooldown

\* C25: the state file is never left empty or partial: it is missing (before
\* the first save) or holds a complete document.
C25_SaveAtomic == file.status \in {"missing", "ok"}

\* C30: once a signal has cleared `running`, it stays cleared, no new cycle
\* is started, and run_daemon returns.
C30_ShutdownAfterSignal ==
    /\ [][ ~hist.running => (~hist'.running /\ cycles' = cycles) ]_vars
    /\ (~hist.running ~> pc = "returned")

\* run_daemon has returned after a signal that arrived during the sleep
\* that follows an abandoned cycle
C30_Witness ==
    /\ pc = "returned"
    /\ hist.signal_pc = "abandoned"
    /\ cycles < MaxStopCycles

\* the lines of a text as deduplicate's caller reads them: none for the
\* empty text
LinesOf(text) == IF text = <<>> THEN <<>> ELSE split_lines(text)

\* the lines a text keeps: non-blank, and no earlier line has the same
\* content once stripped
FirstOccurrences(lines) ==
    { i \in 1..Len(lines) :
        /\ strip(lines[i]) # <<>>
        /\ \A j \in 1..(i - 1) : strip(lines[j]) # strip(lines[i]) }

\* the k-th smallest member of a set of indices
KthOf(set, k) ==
    CHOOSE i \in set : Cardinality({ j \in set : j <= i }) = k

\* C22: the result of deduplicate consists of the first occurrence of each
\* distinct non-blank stripped line of its input, unchanged and in the
\* input's order, and nothing else; applied to its own result it returns
\* that result.
C22_DeduplicateFirstOccurrences ==
    /\ pc \in {"dedup_once", "dedup_twice"} =>
         LET lines == split_lines(sessions)
             kept  == FirstOccurrences(lines)
             out   == LinesOf(context_info)
         IN  /\ Len(out) = Cardinality(kept)
             /\ \A k \in 1..Len(out) : out[k] = lines[KthOf(kept, k)]
    /\ pc = "dedup_twice" => log = context_info

\* a text with two lines that differ only in surrounding whitespace, and a
\* blank line, after both applications
C22_Witness ==
    /\ pc = "dedup_twice"
    /\ LET lines == split_lines(sessions)
       IN  /\ \E i, j \in 1..Len(lines) :
                /\ i < j
                /\ lines[i] # lines[j]
                /\ strip(lines[i]) = strip(lines[j])
                /\ strip(lines[i]) # <<>>
           /\ \E i \in 1..Len(lines) : strip(lines[i]) = <<>>
    /\ context_info # sessions

\* C27: restart() is called only in an iteration whose health check is at
\* least the third consecutive one that is not 'running'; a 'running' check
\* and a successful restart leave consecutive_failures at 0; a failed
\* restart leaves it at the value the check gave it, and then the next
\* check that is not 'running' calls restart() again.
C27_RestartOnThirdConsecutiveFailure ==
    [][ LET called == log'.restart # <<>>
        IN  /\ called => (log'.status # "running" /\ hist'.streak >= 3)
            /\ log'.status = "running" => context_info' = 0
            /\ (called /\ log'.restart[1]) => context_info' = 0
            /\ (called /\ ~log'.restart[1]) =>
                   context_info' = log'.failures_before + 1
            /\ (~called /\ log'.status # "running") =>
                   context_info' = log'.failures_before + 1
            /\ (hist.last_restart_failed /\ log'.status # "running") =>
                   called ]_vars

\* a restart has failed and the next check, not 'running' either, has
\* called restart() again, which succeeded
C27_Witness ==
    /\ log.restart = << TRUE >>
    /\ hist.streak >= 4
    /\ log.failures_before >= 3
    /\ context_info = 0

====
